---- MODULE Spec2Model ----
(***************************************************************************)
(* A model of src/modules/llm.py: the LLM providers (Gemini, Ollama), the  *)
(* dispatcher Module._query_llm, the two hooks (llm, llm_casual) and the   *)
(* history assembler Module._build_history.                                *)
(*                                                                         *)
(* Text is a sequence of atoms: one-character strings, or a fixed literal  *)
(* of the source kept whole.  Concatenation of text is \o.  An optional    *)
(* value (Python None or a str) is a record [some, val].                   *)
(***************************************************************************)
EXTENDS Integers, Sequences, FiniteSets, TLC

\* ---------------------------------------------------------------- bounds
MaxContentLen == 3
MaxBuf == 3
MaxLimit == 4

\* ---------------------------------------------------------- text helpers
None == [some |-> FALSE, val |-> <<>>]
Some(s) == [some |-> TRUE, val |-> s]

\* Python truthiness of an optional str: None and "" are falsy
Truthy(o) == o.some /\ o.val # <<>>

\* str(x) as an f-string renders it: None becomes the text "None"
Str(o) == IF o.some THEN o.val ELSE <<"N", "o", "n", "e">>

Whitespace == {" ", "\n", "\t"}

UpperCase == <<"A", "E", "G", "I", "L", "M", "N", "O">>
LowerCase == <<"a", "e", "g", "i", "l", "m", "n", "o">>

LowerChar(c) ==
    IF \E i \in DOMAIN UpperCase : UpperCase[i] = c
    THEN LowerCase[CHOOSE i \in DOMAIN UpperCase : UpperCase[i] = c]
    ELSE c

\* str.lower()
Lower(s) == [i \in DOMAIN s |-> LowerChar(s[i])]

RECURSIVE LStrip(_)
LStrip(s) ==
    IF s # <<>> /\ Head(s) \in Whitespace THEN LStrip(Tail(s)) ELSE s

RECURSIVE RStrip(_)
RStrip(s) ==
    IF s # <<>> /\ s[Len(s)] \in Whitespace
    THEN RStrip(SubSeq(s, 1, Len(s) - 1))
    ELSE s

\* str.strip()
Strip(s) == RStrip(LStrip(s))

\* str.split() with no separator: the maximal runs of non-whitespace
RECURSIVE SplitFrom(_, _, _)
SplitFrom(s, word, acc) ==
    IF s = <<>>
    THEN IF word = <<>> THEN acc ELSE Append(acc, word)
    ELSE IF Head(s) \in Whitespace
         THEN SplitFrom(Tail(s), <<>>,
                        IF word = <<>> THEN acc ELSE Append(acc, word))
         ELSE SplitFrom(Tail(s), Append(word, Head(s)), acc)

Split(s) == SplitFrom(s, <<>>, <<>>)

\* sep.join(parts)
RECURSIVE Join(_, _)
Join(sep, parts) ==
    IF parts = <<>> THEN <<>>
    ELSE IF Len(parts) = 1 THEN parts[1]
    ELSE parts[1] \o sep \o Join(sep, Tail(parts))

\* list(reversed(xs))
Reversed(xs) == [i \in DOMAIN xs |-> xs[Len(xs) + 1 - i]]

\* xs[:n] for n >= 0
Take(xs, n) == SubSeq(xs, 1, IF n < Len(xs) THEN n ELSE Len(xs))

\* ------------------------------------------------------------- providers
gemini == <<"g", "e", "m", "i", "n", "i">>
ollama == <<"o", "l", "l", "a", "m", "a">>

\* what a prepare call gives back: the exception it raised ("" when none)
\* and the payload to POST (the url and the headers play no part here)
NoPayload == [contents |-> <<>>]
Raised(exc) == [raised |-> exc, payload |-> NoPayload]
Prepared(payload) == [raised |-> "", payload |-> payload]

\* GeminiProvider.prepare: chat_history is accepted and unused
GeminiPrepare(cfg, system_prompt, chat_history) ==
    IF ~Truthy(cfg.gemini_key) THEN Raised("RuntimeError")
    ELSE IF ~system_prompt.some THEN Raised("AttributeError")
    ELSE Prepared([contents |->
             <<[parts |-> <<[text |-> Strip(system_prompt.val) \o <<"\n", "\n">>]>>]>>])

HEADER_PREAMBLE ==
    <<"Sometimes your response could be an offensive observation based on chat history\n",
      "use the following chat history to inform your response:\n">>
HISTORY_START == <<"=== Chat history START ===", "\n">>
HISTORY_END == <<"\n", "=== Chat history END ===", "\n", "\n">>

\* the f-string header of OllamaProvider.prepare
OllamaHeader(chat_history) ==
    HEADER_PREAMBLE \o HISTORY_START \o Str(chat_history) \o HISTORY_END

OllamaPrepare(cfg, system_prompt, chat_history) ==
    Prepared([model |-> "ollama_model",
              messages |->
                 IF Truthy(system_prompt)
                 THEN <<[role |-> "system",
                         content |-> OllamaHeader(chat_history) \o system_prompt.val]>>
                 ELSE <<>>])

\* A decoded JSON body: the name of its top-level array ("candidates",
\* "choices", or "" when it has neither) and, per element of that array, the
\* text found at the end of the nested path (None when a segment is missing).
Body(arr, elems) == [kind |-> "json", arr |-> arr, elems |-> elems]

Parsed(text) == [raised |-> "", text |-> text]
ParseRaised(exc) == [raised |-> exc, text |-> <<>>]

\* resp[key][0]...: KeyError without the array, IndexError when it is empty,
\* KeyError when the nested field is absent
Descend(resp, key) ==
    IF resp.arr # key THEN ParseRaised("KeyError")
    ELSE IF resp.elems = <<>> THEN ParseRaised("IndexError")
    ELSE IF ~resp.elems[1].some THEN ParseRaised("KeyError")
    ELSE Parsed(resp.elems[1].val)

GeminiParse(resp) == Descend(resp, "candidates")
OllamaParse(resp) == Descend(resp, "choices")

PROVIDERS == (gemini :> "GeminiProvider") @@ (ollama :> "OllamaProvider")

prepare(provider_cls, cfg, system_prompt, chat_history) ==
    IF provider_cls = "GeminiProvider"
    THEN GeminiPrepare(cfg, system_prompt, chat_history)
    ELSE OllamaPrepare(cfg, system_prompt, chat_history)

parse(provider_cls, resp) ==
    IF provider_cls = "GeminiProvider" THEN GeminiParse(resp) ELSE OllamaParse(resp)

\* ------------------------------------------------------ history assembler
\* line.tags.get('account') or line.sender
Identity(line) == IF Truthy(line.account) THEN line.account.val ELSE line.sender

\* f"{identity}: {line.message}"
Render(line) == Identity(line) \o <<":", " ">> \o line.message

\* the recent lines left in storage order
build_history_unreversed(lines, lim) ==
    LET recent == Take(lines, lim)
    IN  Join(<<"\n">>, [i \in DOMAIN recent |-> Render(recent[i])])

\* Module._build_history: buffer._lines is stored newest first
build_history(lines, lim) ==
    LET recent == Take(lines, lim)
    IN  Join(<<"\n">>, [i \in DOMAIN recent |-> Render(Reversed(recent)[i])])

\* the limit llm_casual passes
HistoryLimit == 20

\* ------------------------------------------------------------- dispatcher
UNKNOWN_PROVIDER == <<"Unknown LLM provider: ">>
UNREACHABLE == <<"LLM service is unreachable.">>

\* bot.config.get(key, default)
ConfigGet(o, default) == IF o.some THEN o.val ELSE default

\* Module._get_config (the url, host and model keys play no part here)
get_config(conf) ==
    [llm_provider |-> ConfigGet(conf.llm_provider, gemini),
     gemini_key |-> conf.gemini_key]

\* the lookup with the lower-casing left out
backend_raw(cfg) == cfg.llm_provider

\* cfg["llm_provider"].lower()
backend_of(cfg) == Lower(cfg.llm_provider)

\* one call of utils.http.request
request(n) == n + 1

NoRequest == [provider |-> "", payload |-> NoPayload]

\* _query_llm up to the blocking network call
query_begin(conf, system_prompt, chat_history) ==
    LET cfg == get_config(conf)
        backend == backend_of(cfg)
    IN  IF backend \notin DOMAIN PROVIDERS
        THEN [pc |-> "done", ret |-> "False", exc |-> "",
              stderr |-> <<UNKNOWN_PROVIDER \o backend>>,
              prepares |-> 0, posts |-> 0, req |-> NoRequest]
        ELSE LET p == prepare(PROVIDERS[backend], cfg, system_prompt, chat_history)
             IN  IF p.raised # ""
                 THEN [pc |-> "done", ret |-> "raised", exc |-> p.raised,
                       stderr |-> <<>>,
                       prepares |-> 1, posts |-> 0, req |-> NoRequest]
                 ELSE [pc |-> "http", ret |-> "none", exc |-> "",
                       stderr |-> <<>>,
                       prepares |-> 1, posts |-> request(0),
                       req |-> [provider |-> PROVIDERS[backend],
                                payload |-> p.payload]]

\* what request(...).json() can raise
TransportFailures == {"timeout", "refused", "dns", "nonjson"}

\* a handler that catches the timeout alone
CaughtTimeoutOnly(failure) == failure = "timeout"

\* except Exception: every transport failure is an Exception
Caught(failure) == failure \in TransportFailures

\* trimming the ends without collapsing the runs inside
CleanStripOnly(content) == Strip(content)

\* " ".join(content.strip().split())
Clean(content) == Join(<<" ">>, Split(Strip(content)))

\* the two sinks the wrong way round
DeliverSwapped(use_stdout, clean) ==
    IF use_stdout THEN [stdout |-> <<>>, sent |-> <<clean>>]
    ELSE [stdout |-> <<clean>>, sent |-> <<>>]

\* event["stdout"].write(clean) if use_stdout else event["target"].send_message(clean)
Deliver(use_stdout, clean) ==
    IF use_stdout THEN [stdout |-> <<clean>>, sent |-> <<>>]
    ELSE [stdout |-> <<>>, sent |-> <<clean>>]

\* _query_llm from the outcome of the network call to its end
query_end(provider_cls, response, use_stdout) ==
    IF response.kind # "json"
    THEN IF Caught(response.kind)
         THEN [ret |-> "False", exc |-> "", stderr |-> <<UNREACHABLE>>,
               stdout |-> <<>>, sent |-> <<>>, parses |-> 0]
         ELSE [ret |-> "raised", exc |-> response.kind, stderr |-> <<>>,
               stdout |-> <<>>, sent |-> <<>>, parses |-> 0]
    ELSE LET p == parse(provider_cls, response)
         IN  IF p.raised # ""
             THEN [ret |-> "raised", exc |-> p.raised, stderr |-> <<>>,
                   stdout |-> <<>>, sent |-> <<>>, parses |-> 1]
             ELSE LET d == Deliver(use_stdout, Clean(p.text))
                  IN  [ret |-> "True", exc |-> "", stderr |-> <<>>,
                       stdout |-> d.stdout, sent |-> d.sent, parses |-> 1]

\* BoolSetting values as the settings store holds them
Settings == {"unset", "true", "false"}

\* get_setting(name, default)
get_setting(v, default) == IF v = "unset" THEN default ELSE v = "true"

\* a gate that opens on either flag
GateEither(bot, chan) == get_setting(bot, FALSE) \/ get_setting(chan, TRUE)

\* the gate of llm_casual
Gate(bot, chan) == get_setting(bot, FALSE) /\ get_setting(chan, TRUE)

PERSONA_HEAD == <<"you are hawtbot, an irc bot with a jaded personality [...] someone just said: ">>
PERSONA_TAIL == <<" - could be a command or just someone venting into the void  reply after this it should be minimal, direct, dripping with jaded pride, and always in lowercase">>

\* the system prompt llm_casual builds around the matched text
system_p(user_talk) == PERSONA_HEAD \o user_talk \o PERSONA_TAIL

\* ----------------------------------------------------------------- inputs
\* every text over an alphabet, up to a length
Texts(alphabet, n) == UNION {[1..k -> alphabet] : k \in 0..n}

hello == <<"h", "e", "l", "l", "o">>
hi_there == <<"h", "i", " ", "t", "h", "e", "r", "e">>
spaced == <<" ", " ", "a", "\n", "\n", "b", "\t", "c", " ", " ">>

ProviderNames ==
    {None, Some(gemini), Some(<<"G", "e", "m", "i", "n", "i">>),
     Some(ollama), Some(<<"O", "L", "L", "A", "M", "A">>),
     Some(<<"g", "p", "t">>)}

ApiKeys == {None, Some(<<>>), Some(<<"k">>)}

Contents == Texts({" ", "\n", "\t", "a"}, MaxContentLen) \cup {hi_there, spaced}

Bodies ==
    {Body("", <<>>)}
    \cup {Body(arr, elems) :
            arr \in {"candidates", "choices"},
            elems \in {<<>>, <<None>>} \cup {<<Some(c)>> : c \in Contents}}

Accounts == {None, Some(<<>>), Some(<<"a", "c", "c">>)}
Messages == {<<"x">>, <<"y", " ", "z">>}
Lines == [account : Accounts, sender : {<<"n", "k">>}, message : Messages]

\* buffers, newest line first
Buffers(n) == UNION {[1..k -> Lines] : k \in 0..n}

\* the buffers a casual mention is dispatched over
CasualBuffers ==
    {<<>>,
     <<[account |-> None, sender |-> <<"n", "k">>, message |-> <<"x">>]>>,
     <<[account |-> Some(<<"a", "c", "c">>), sender |-> <<"n", "k">>,
        message |-> <<"y", " ", "z">>],
       [account |-> None, sender |-> <<"n", "k">>, message |-> <<"x">>]>>}

Mentions == {<<"hawtbot", ":", " ", "h", "i">>}
Args == {hello, <<"h", "i">>}

\* ------------------------------------------------------------------ state
VARIABLES
    config,     \* bot.config: llm-provider and gemini-api-key
    botset,     \* the bot-wide llm-fallback setting
    chanset,    \* the target's llm-fallback setting
    buffer,     \* event["target"].buffer._lines, newest first
    limit,      \* the limit _build_history is called with
    pc,         \* "idle", "http" (blocked in the network call), "done"
    hook,       \* the handler the event went to
    call,       \* the arguments of the _query_llm call of this event
    req,        \* the request in flight
    resp,       \* the outcome of the network call
    ret,        \* how _query_llm ended: "True", "False", "raised", "none"
    exc,        \* the exception that left _query_llm
    history,    \* what _build_history returned for this event
    stdout,     \* lines written to event["stdout"]
    stderr,     \* lines written to event["stderr"]
    sent,       \* messages sent to event["target"]
    posts,      \* POST requests issued by this event
    prepares,   \* prepare calls of this event
    parses,     \* parse calls of this event
    eaten       \* event.eat() was called

vars == <<config, botset, chanset, buffer, limit, pc, hook, call, req, resp,
          ret, exc, history, stdout, stderr, sent, posts, prepares, parses, eaten>>

env == <<config, botset, chanset, buffer, limit>>

NoCall == [called |-> FALSE, system_prompt |-> None, chat_history |-> None,
           use_stdout |-> FALSE]
NoResponse == [kind |-> "none", arr |-> "", elems |-> <<>>]
Failure(kind) == [kind |-> kind, arr |-> "", elems |-> <<>>]

\* nothing has happened to the event yet
Fresh ==
    /\ pc = "idle" /\ hook = "none" /\ call = NoCall /\ req = NoRequest
    /\ resp = NoResponse /\ ret = "none" /\ exc = "" /\ history = None
    /\ stdout = <<>> /\ stderr = <<>> /\ sent = <<>>
    /\ posts = 0 /\ prepares = 0 /\ parses = 0 /\ eaten = FALSE

Init ==
    /\ config \in [llm_provider : ProviderNames, gemini_key : ApiKeys]
    /\ botset \in Settings
    /\ chanset \in Settings
    /\ buffer \in CasualBuffers
    /\ limit = HistoryLimit
    /\ Fresh

\* a new event enters _query_llm
Enter(system_prompt, chat_history, use_stdout, eats) ==
    LET q == query_begin(config, system_prompt, chat_history)
    IN  /\ call' = [called |-> TRUE, system_prompt |-> system_prompt,
                    chat_history |-> chat_history, use_stdout |-> use_stdout]
        /\ pc' = q.pc
        /\ ret' = q.ret
        /\ exc' = q.exc
        /\ stderr' = q.stderr
        /\ prepares' = q.prepares
        /\ posts' = q.posts
        /\ req' = q.req
        /\ eaten' = (eats /\ q.ret = "False")
        /\ resp' = NoResponse
        /\ stdout' = <<>>
        /\ sent' = <<>>
        /\ parses' = 0

\* Module.llm: the received.command.llm hook
llm ==
    /\ pc # "http"
    /\ \E args \in Args :
          /\ hook' = "llm"
          /\ history' = None
          /\ Enter(Some(args), None, TRUE, FALSE)
    /\ UNCHANGED env

\* Module.llm_casual: the command.regex hook
llm_casual ==
    /\ pc # "http"
    /\ \E user_talk \in Mentions :
          /\ hook' = "casual"
          /\ IF ~Gate(botset, chanset)
             THEN /\ pc' = "done"
                  /\ call' = NoCall /\ req' = NoRequest /\ resp' = NoResponse
                  /\ ret' = "none" /\ exc' = "" /\ history' = None
                  /\ stdout' = <<>> /\ stderr' = <<>> /\ sent' = <<>>
                  /\ posts' = 0 /\ prepares' = 0 /\ parses' = 0
                  /\ eaten' = FALSE
             ELSE LET chat_history == build_history(buffer, HistoryLimit)
                  IN  /\ history' = Some(chat_history)
                      /\ Enter(Some(system_p(user_talk)), Some(chat_history),
                               FALSE, TRUE)
    /\ UNCHANGED env

\* the rest of the handler once the network call has an outcome
Finish(response) ==
    LET e == query_end(req.provider, response, call.use_stdout)
    IN  /\ resp' = response
        /\ pc' = "done"
        /\ ret' = e.ret
        /\ exc' = e.exc
        /\ stderr' = stderr \o e.stderr
        /\ stdout' = stdout \o e.stdout
        /\ sent' = sent \o e.sent
        /\ parses' = parses + e.parses
        /\ eaten' = (hook = "casual" /\ e.ret # "raised")
        /\ UNCHANGED <<hook, call, req, history, posts, prepares>>
        /\ UNCHANGED env

\* a failed attempt that reports and then posts again
HttpRaisesRetry ==
    /\ pc = "http"
    /\ \E failure \in TransportFailures :
          /\ resp' = Failure(failure)
          /\ stderr' = Append(stderr, UNREACHABLE)
          /\ posts' = request(posts)
          /\ UNCHANGED <<pc, hook, call, req, ret, exc, history, stdout, sent,
                         prepares, parses, eaten>>
          /\ UNCHANGED env

\* the network call raises: timeout, refused, DNS, or a body that is not JSON
HttpRaises ==
    /\ pc = "http"
    /\ \E failure \in TransportFailures : Finish(Failure(failure))

\* the network call returns a decoded JSON body
HttpReturns ==
    /\ pc = "http"
    /\ \E body \in Bodies : Finish(body)

Next == llm \/ llm_casual \/ HttpRaises \/ HttpReturns

Spec == Init /\ [][Next]_vars

\* ---------------------------------------------- _build_history on its own
InitHistory ==
    /\ config = [llm_provider |-> None, gemini_key |-> None]
    /\ botset = "unset"
    /\ chanset = "unset"
    /\ buffer \in Buffers(MaxBuf)
    /\ limit \in 0..MaxLimit
    /\ Fresh

BuildHistory ==
    /\ ~history.some
    /\ history' = Some(build_history(buffer, limit))
    /\ UNCHANGED <<config, botset, chanset, buffer, limit, pc, hook, call, req,
                   resp, ret, exc, stdout, stderr, sent, posts, prepares,
                   parses, eaten>>

NextHistory == BuildHistory

SpecHistory == InitHistory /\ [][NextHistory]_vars

\* ------------------------------------------------------------ properties
\* the provider name the event's dispatch looks up
ConfiguredName ==
    Lower(IF config.llm_provider.some THEN config.llm_provider.val ELSE gemini)

KeyMissing == ~config.gemini_key.some \/ config.gemini_key.val = <<>>

\* a decoded body without the fields the provider's parse descends through
Malformed(provider_cls, body) ==
    \/ body.arr # (IF provider_cls = "GeminiProvider" THEN "candidates" ELSE "choices")
    \/ body.elems = <<>>
    \/ ~body.elems[1].some

\* C1: a dispatch with the gemini provider selected and the API key empty or
\* absent writes a diagnostic, returns failure, lets no exception out and
\* makes no network call.
C1_MissingKeyReported ==
    (call.called /\ ConfiguredName = gemini /\ KeyMissing)
        => /\ pc = "done"
           /\ ret = "False"
           /\ exc = ""
           /\ stderr # <<>>
           /\ posts = 0

\* C2: a dispatch whose network call returns a decodable body that lacks the
\* fields the provider's parse expects ends in the reported failure: a
\* diagnostic is written, failure is returned, nothing reaches the reply or
\* the command-output sink, and no exception escapes.
C2_MalformedReported ==
    (pc = "done" /\ resp.kind = "json" /\ Malformed(req.provider, resp))
        => /\ ret = "False"
           /\ exc = ""
           /\ stderr # <<>>
           /\ stdout = <<>>
           /\ sent = <<>>

\* C3: a dispatch whose provider name, lower-cased, is no key of the registry
\* writes the unknown-provider diagnostic, returns failure, posts nothing and
\* raises nothing; a name that lower-cases to a key, in any letter case,
\* resolves and the dispatch goes on to prepare.
C3_ProviderResolution ==
    call.called =>
        IF ConfiguredName \notin {gemini, ollama}
        THEN /\ pc = "done"
             /\ ret = "False"
             /\ exc = ""
             /\ stderr = <<UNKNOWN_PROVIDER \o ConfiguredName>>
             /\ posts = 0
             /\ prepares = 0
             /\ stdout = <<>>
             /\ sent = <<>>
        ELSE prepares = 1

C3_Witness ==
    /\ call.called
    /\ config.llm_provider = Some(<<"g", "p", "t">>)
    /\ ret = "False"
    /\ stderr # <<>>

\* C4: a dispatch whose network call fails in transport (timeout, connection
\* refused, DNS, a body that is not JSON) leaves exactly one unreachable line
\* on the diagnostic sink and returns failure; nothing is raised, parse is
\* not called and nothing is delivered.
C4_TransportFailure ==
    (pc = "done" /\ resp.kind \in {"timeout", "refused", "dns", "nonjson"})
        => /\ stderr = <<UNREACHABLE>>
           /\ ret = "False"
           /\ exc = ""
           /\ parses = 0
           /\ stdout = <<>>
           /\ sent = <<>>

C4_Witness ==
    /\ pc = "done"
    /\ resp.kind = "nonjson"
    /\ ret = "False"
    /\ stderr = <<UNREACHABLE>>

\* C5: within one dispatch exactly one POST is issued when resolution and
\* prepare succeed, none otherwise, and never more than one: a dispatch that
\* ended after a failed attempt has issued one request.
C5_OnePost ==
    /\ posts <= 1
    /\ call.called =>
          posts = (IF \/ ConfiguredName = ollama
                      \/ (ConfiguredName = gemini /\ ~KeyMissing)
                   THEN 1 ELSE 0)
    /\ (resp.kind # "none" /\ ret # "True") => (pc = "done" /\ posts = 1)

C5_Witness ==
    /\ pc = "done"
    /\ resp.kind = "json"
    /\ exc = "IndexError"
    /\ posts = 1

\* C6: a dispatch returns success only with exactly one line delivered to
\* the one sink its output mode selects: the llm command writes it to the
\* event's output sink and sends the target nothing, a casual mention sends
\* it to the target and writes nothing.  The llm command with provider ollama
\* and response content "hi there" writes "hi there" and returns success.
C6_OneSink ==
    /\ ret = "True" =>
          /\ stderr = <<>>
          /\ call.use_stdout = (hook = "llm")
          /\ IF hook = "llm"
             THEN Len(stdout) = 1 /\ sent = <<>>
             ELSE Len(sent) = 1 /\ stdout = <<>>
    /\ (/\ pc = "done"
        /\ hook = "llm"
        /\ ConfiguredName = ollama
        /\ resp = Body("choices", <<Some(hi_there)>>))
          => (ret = "True" /\ stdout = <<hi_there>>)

C6_Witness ==
    /\ hook = "llm"
    /\ config.llm_provider = Some(ollama)
    /\ resp = Body("choices", <<Some(hi_there)>>)
    /\ ret = "True"
    /\ stdout = <<hi_there>>

\* the reference reading of whitespace collapsing: a left-to-right scan that
\* drops leading runs and puts one space before a word that follows a run
RECURSIVE Scan(_, _, _)
Scan(s, out, gap) ==
    IF s = <<>> THEN out
    ELSE IF Head(s) \in {" ", "\n", "\t"}
         THEN Scan(Tail(s), out, out # <<>>)
         ELSE Scan(Tail(s), (IF gap THEN Append(out, " ") ELSE out) \o <<Head(s)>>, FALSE)

Collapsed(line) ==
    /\ \A i \in DOMAIN line : line[i] \notin {"\n", "\t"}
    /\ \A i \in 1..(Len(line) - 1) : ~(line[i] = " " /\ line[i + 1] = " ")
    /\ line # <<>> => (line[1] # " " /\ line[Len(line)] # " ")

\* the lines the event delivered, to either sink
Delivered == stdout \o sent

\* C8: every line delivered on success is the generated text with each run
\* of whitespace collapsed to one space and both ends trimmed: it holds no
\* newline, no tab, no two spaces in a row and no space at either end.
C8_CleanLine ==
    ret = "True" =>
        /\ Len(Delivered) = 1
        /\ Delivered[1] = Scan(resp.elems[1].val, <<>>, FALSE)
        /\ Collapsed(Delivered[1])
        /\ resp.elems[1].val = spaced => Delivered[1] = <<"a", " ", "b", " ", "c">>

C8_Witness ==
    /\ ret = "True"
    /\ resp.elems = <<Some(spaced)>>
    /\ Delivered = << <<"a", " ", "b", " ", "c">> >>

\* C9: llm_casual invokes the dispatcher only when the global llm-fallback
\* flag (default false) and the target's flag (default true) are both true;
\* otherwise it returns with no dispatch, no network call, no history built,
\* no message and the event not eaten.
C9_Gate ==
    hook = "casual" =>
        LET open == botset = "true" /\ chanset \in {"true", "unset"}
        IN  IF open
            THEN call.called /\ history.some
            ELSE /\ pc = "done"
                 /\ ~call.called
                 /\ posts = 0
                 /\ prepares = 0
                 /\ ~history.some
                 /\ stdout = <<>> /\ stderr = <<>> /\ sent = <<>>
                 /\ ~eaten

C9_Witness ==
    /\ hook = "casual"
    /\ botset = "true"
    /\ chanset = "false"
    /\ pc = "done"
    /\ ~call.called

\* C10: the local backend's prepare, given a system prompt, builds one system
\* message: the preamble, the delimited history block, the prompt; with no
\* history supplied the block between the delimiters is empty; given no
\* system prompt the message list is empty.
C10_HistoryBlock ==
    (call.called /\ req.provider = "OllamaProvider") =>
        LET block == IF call.chat_history.some THEN call.chat_history.val ELSE <<>>
        IN  IF call.system_prompt.some /\ call.system_prompt.val # <<>>
            THEN req.payload.messages =
                   <<[role |-> "system",
                      content |-> HEADER_PREAMBLE \o HISTORY_START \o block
                                    \o HISTORY_END \o call.system_prompt.val]>>
            ELSE req.payload.messages = <<>>

\* the lines of a text, cut at its newlines
RECURSIVE LinesOf(_, _, _)
LinesOf(s, line, acc) ==
    IF s = <<>> THEN Append(acc, line)
    ELSE IF Head(s) = "\n" THEN LinesOf(Tail(s), <<>>, Append(acc, line))
    ELSE LinesOf(Tail(s), Append(line, Head(s)), acc)

ExpectedLine(line) ==
    (IF line.account.some /\ line.account.val # <<>>
     THEN line.account.val ELSE line.sender) \o <<":", " ">> \o line.message

\* C7: _build_history over a newest-first buffer of N entries returns
\* min(N, limit) lines joined by newlines: the first limit entries of the
\* buffer, oldest first, each "{identity}: {message}" with the account tag as
\* identity when present and non-empty and the sender otherwise; the empty
\* string when N = 0.
C7_History ==
    history.some =>
        LET N == Len(buffer)
            k == IF N < limit THEN N ELSE limit
        IN  IF k = 0 THEN history.val = <<>>
            ELSE LET ls == LinesOf(history.val, <<>>, <<>>)
                 IN  /\ Len(ls) = k
                     /\ \A i \in 1..k : ls[i] = ExpectedLine(buffer[k + 1 - i])

C7_Witness ==
    /\ history.some
    /\ limit = 2
    /\ Len(buffer) = 3
    /\ buffer[1].account = None
    /\ buffer[2].account = Some(<<"a", "c", "c">>)
    /\ history.val = <<"a", "c", "c", ":", " ", "x", "\n", "n", "k", ":", " ", "y", " ", "z">>

====
